---------------------------- MODULE Spec2Model ----------------------------
(***************************************************************************)
(* Model of the savings projection of app.py (Etihad Airways Savings       *)
(* Projection Dashboard).                                                  *)
(*                                                                         *)
(* The script is a Streamlit page: every widget interaction re-runs the    *)
(* whole script top to bottom with the widgets' current values.  The state *)
(* is the widgets' values together with the values the last run of the     *)
(* script computed; each action is one interaction followed by the whole   *)
(* re-run.                                                                 *)
(*                                                                         *)
(* Number representation.  The script computes with Python floats.  The    *)
(* model computes exactly, on a decimal grid:                               *)
(*   - a money amount is an integer number of cents;                       *)
(*   - a percentage is an integer number of hundredths of a percent.       *)
(* Trapped funds are multiples of 100 dollars and the consulting fee is a  *)
(* multiple of 10,000 dollars (its widget's step), so that x * (p / 100)   *)
(* and fee / 1,000,000 are whole numbers of cents and nothing is rounded.  *)
(* Rounding of binary floating point is outside the model.                 *)
(***************************************************************************)
EXTENDS Integers, Sequences, FiniteSets, TLC

\* ------------------------------------------------------------------ units

\* A whole number of dollars, in cents.
Dollars(d) == d * 100

\* x * (p / 100) for an amount x (cents) and a percentage p (hundredths of a
\* percent); exact for x a multiple of 100 dollars.
PercentOf(x, p) == (x \div 10000) * p

\* ---------------------------------------------------------------- presets

\* Widget ranges and defaults.
TransactionFeeStep == 10
LossRateStep == 50
ConsultingFeeDefault == 25000000
TxnMin == 1
TxnDefault == 12
YearsMin == 1
YearsMax == 20
YearsDefault == 10

\* payback_year = None
None == 0

scenarios == <<"Conservative Estimate", "Average Estimate", "Optimistic Estimate">>

Countries == {"Bangladesh", "Pakistan", "Others"}

\* The iteration order of the dicts of default_params.
CountryOrder == <<"Bangladesh", "Pakistan", "Others">>

default_params ==
    [s \in {scenarios[i] : i \in 1..Len(scenarios)} |->
        [transaction_fee_percent |->
            CASE s = "Conservative Estimate" -> 300
              [] s = "Average Estimate" -> 225
              [] s = "Optimistic Estimate" -> 150,
         annual_trapped_funds |->
            [c \in Countries |->
                CASE c = "Bangladesh" -> Dollars(1000000)
                  [] c = "Pakistan" -> Dollars(500000)
                  [] c = "Others" -> Dollars(300000)],
         annual_loss_rate_percent |->
            CASE s = "Conservative Estimate" -> 1000
              [] s = "Average Estimate" -> 1500
              [] s = "Optimistic Estimate" -> 2000,
         transactions_per_year |-> [c \in Countries |-> TxnDefault]]]

\* ----------------------------------------------------------------- inputs

\* The horizon slider takes 1..MaxYearSteps, its default and its maximum.
MaxYearSteps == 3

\* The values each widget is given.  Sliders move on their step from their
\* minimum; a number input takes 0, a small amount and its default.
FeeChoices == {0, TransactionFeeStep}
LossChoices == {0, LossRateStep}
FundChoices(c) ==
    {0, Dollars(100), default_params[scenarios[1]].annual_trapped_funds[c]}
ConsultingChoices == {0, ConsultingFeeDefault, 4 * ConsultingFeeDefault}
TxnChoices == {TxnMin, TxnDefault}
YearChoices == {y \in YearsMin..YearsMax : y <= MaxYearSteps} \cup {YearsDefault, YearsMax}

\* ------------------------------------------------------------------ state

VARIABLES
    selected_scenario,
    transaction_fee_percent,
    annual_trapped_funds,
    annual_loss_rate_percent,
    consulting_fee,
    transactions_per_year,
    selected_years,
    cumulative_savings,
    net_annual_savings,
    annual_current_loss,
    annual_blockchain_cost,
    payback_year,
    total_savings_over_period,
    payback_period_text

widgets == <<selected_scenario, transaction_fee_percent, annual_trapped_funds,
             annual_loss_rate_percent, consulting_fee, transactions_per_year,
             selected_years>>

outputs == <<cumulative_savings, net_annual_savings, annual_current_loss,
             annual_blockchain_cost, payback_year, total_savings_over_period,
             payback_period_text>>

vars == <<widgets, outputs>>

\* ------------------------------------------------------- the calculation

\* sum(trapped_funds.values())
RECURSIVE SumValues(_, _)
SumValues(trapped_funds, n) ==
    IF n = 0 THEN 0
    ELSE SumValues(trapped_funds, n - 1) + trapped_funds[CountryOrder[n]]

\* Mutant of SavingsLoop: the consulting fee is subtracted in every year.
RECURSIVE SavingsLoopFeeEveryYear(_, _, _)
SavingsLoopFeeEveryYear(net, fee, year) ==
    IF year = 0
    THEN [total_savings |-> 0, cumulative_savings |-> <<>>]
    ELSE LET before == SavingsLoopFeeEveryYear(net, fee, year - 1)
             total == before.total_savings + net - fee
         IN  [total_savings |-> total,
              cumulative_savings |-> Append(before.cumulative_savings, total)]

\* Mutant of SavingsLoop: the running total is assigned, not accumulated
\* (total_savings = net_annual_savings).
RECURSIVE SavingsLoopNoAccumulate(_, _, _)
SavingsLoopNoAccumulate(net, fee, year) ==
    IF year = 0
    THEN [total_savings |-> 0, cumulative_savings |-> <<>>]
    ELSE LET before == SavingsLoopNoAccumulate(net, fee, year - 1)
             total == IF year = 1 THEN net - fee ELSE net
         IN  [total_savings |-> total,
              cumulative_savings |-> Append(before.cumulative_savings, total)]

\* Mutant of SavingsLoop: the append is indented under `if year == 1`.
RECURSIVE SavingsLoopAppendInIf(_, _, _)
SavingsLoopAppendInIf(net, fee, year) ==
    IF year = 0
    THEN [total_savings |-> 0, cumulative_savings |-> <<>>]
    ELSE LET before == SavingsLoopAppendInIf(net, fee, year - 1)
             added == before.total_savings + net
             total == IF year = 1 THEN added - fee ELSE added
         IN  [total_savings |-> total,
              cumulative_savings |->
                  IF year = 1
                  THEN Append(before.cumulative_savings, total)
                  ELSE before.cumulative_savings]

\* The state of the loop of calculate_savings after its iteration for `year`
\* (year = 0: before the loop).
RECURSIVE SavingsLoop(_, _, _)
SavingsLoop(net, fee, year) ==
    IF year = 0
    THEN [total_savings |-> 0, cumulative_savings |-> <<>>]
    ELSE LET before == SavingsLoop(net, fee, year - 1)
             added == before.total_savings + net
             total == IF year = 1 THEN added - fee ELSE added
         IN  [total_savings |-> total,
              cumulative_savings |-> Append(before.cumulative_savings, total)]

\* Mutant of calculate_savings: the blockchain cost is charged on what is left
\* after the current loss.
calculate_savings_CostAfterLoss(transaction_fee, trapped_funds, loss_rate, fee, years) ==
    LET annual_trapped_total == SumValues(trapped_funds, Len(CountryOrder))
        current_loss == PercentOf(annual_trapped_total, loss_rate)
        blockchain_cost == PercentOf(annual_trapped_total - current_loss, transaction_fee)
        net == current_loss - blockchain_cost
    IN  [cumulative_savings |-> SavingsLoop(net, fee, years).cumulative_savings,
         net_annual_savings |-> net,
         annual_current_loss |-> current_loss,
         annual_blockchain_cost |-> blockchain_cost]

\* Mutant of calculate_savings: the net savings subtract the fee percentage,
\* not the blockchain cost.
calculate_savings_NetOfFeeRate(transaction_fee, trapped_funds, loss_rate, fee, years) ==
    LET annual_trapped_total == SumValues(trapped_funds, Len(CountryOrder))
        current_loss == PercentOf(annual_trapped_total, loss_rate)
        blockchain_cost == PercentOf(annual_trapped_total, transaction_fee)
        net == current_loss - transaction_fee
    IN  [cumulative_savings |-> SavingsLoop(net, fee, years).cumulative_savings,
         net_annual_savings |-> net,
         annual_current_loss |-> current_loss,
         annual_blockchain_cost |-> blockchain_cost]

calculate_savings(transaction_fee, trapped_funds, loss_rate, fee, years) ==
    LET annual_trapped_total == SumValues(trapped_funds, Len(CountryOrder))
        current_loss == PercentOf(annual_trapped_total, loss_rate)
        blockchain_cost == PercentOf(annual_trapped_total, transaction_fee)
        net == current_loss - blockchain_cost
    IN  [cumulative_savings |-> SavingsLoop(net, fee, years).cumulative_savings,
         net_annual_savings |-> net,
         annual_current_loss |-> current_loss,
         annual_blockchain_cost |-> blockchain_cost]

\* Mutant of PaybackLoop: no `payback_year is None` test, so a later year
\* overwrites the payback year.
RECURSIVE PaybackLoopOverwrite(_, _, _)
PaybackLoopOverwrite(net, fee, year) ==
    IF year = 0
    THEN [cumulative |-> 0, payback_year |-> None]
    ELSE LET before == PaybackLoopOverwrite(net, fee, year - 1)
             cumulative == IF year = 1
                           THEN before.cumulative + (net - (fee \div 1000000))
                           ELSE before.cumulative + net
         IN  [cumulative |-> cumulative,
              payback_year |->
                  IF cumulative >= 0 THEN year ELSE before.payback_year]

\* Mutant of PaybackLoop: year 1 subtracts nothing.
RECURSIVE PaybackLoopNoFee(_, _, _)
PaybackLoopNoFee(net, fee, year) ==
    IF year = 0
    THEN [cumulative |-> 0, payback_year |-> None]
    ELSE LET before == PaybackLoopNoFee(net, fee, year - 1)
             cumulative == before.cumulative + net
         IN  [cumulative |-> cumulative,
              payback_year |->
                  IF before.payback_year = None /\ cumulative >= 0
                  THEN year
                  ELSE before.payback_year]

\* Mutant of PaybackLoop: the test is cumulative > 0.
RECURSIVE PaybackLoopStrict(_, _, _)
PaybackLoopStrict(net, fee, year) ==
    IF year = 0
    THEN [cumulative |-> 0, payback_year |-> None]
    ELSE LET before == PaybackLoopStrict(net, fee, year - 1)
             cumulative == IF year = 1
                           THEN before.cumulative + (net - (fee \div 1000000))
                           ELSE before.cumulative + net
         IN  [cumulative |-> cumulative,
              payback_year |->
                  IF before.payback_year = None /\ cumulative > 0
                  THEN year
                  ELSE before.payback_year]

\* The state of the payback loop after its iteration for `year`.
RECURSIVE PaybackLoop(_, _, _)
PaybackLoop(net, fee, year) ==
    IF year = 0
    THEN [cumulative |-> 0, payback_year |-> None]
    ELSE LET before == PaybackLoop(net, fee, year - 1)
             cumulative == IF year = 1
                           THEN before.cumulative + (net - (fee \div 1000000))
                           ELSE before.cumulative + net
         IN  [cumulative |-> cumulative,
              payback_year |->
                  IF before.payback_year = None /\ cumulative >= 0
                  THEN year
                  ELSE before.payback_year]

\* f"{payback_year if payback_year else 'Not within horizon'}"
PaybackText(year) == IF year # None THEN ToString(year) ELSE "Not within horizon"

\* Mutant of Script: the transaction fee is charged per transaction, the
\* preset of 12 a year per country being the base.
ScriptFeePerTransaction(w) ==
    LET txns == SumValues(w.transactions_per_year, Len(CountryOrder))
        r == calculate_savings((w.transaction_fee_percent * txns) \div (3 * TxnDefault),
                               w.annual_trapped_funds,
                               w.annual_loss_rate_percent, w.consulting_fee,
                               w.selected_years)
        p == PaybackLoop(r.net_annual_savings, w.consulting_fee, w.selected_years)
    IN  [cumulative_savings |-> r.cumulative_savings,
         net_annual_savings |-> r.net_annual_savings,
         annual_current_loss |-> r.annual_current_loss,
         annual_blockchain_cost |-> r.annual_blockchain_cost,
         payback_year |-> p.payback_year,
         total_savings_over_period |-> r.cumulative_savings[Len(r.cumulative_savings)],
         payback_period_text |-> PaybackText(p.payback_year)]

\* One run of the script below the widgets, on the widgets' values w.
Script(w) ==
    LET r == calculate_savings(w.transaction_fee_percent, w.annual_trapped_funds,
                               w.annual_loss_rate_percent, w.consulting_fee,
                               w.selected_years)
        p == PaybackLoop(r.net_annual_savings, w.consulting_fee, w.selected_years)
    IN  [cumulative_savings |-> r.cumulative_savings,
         net_annual_savings |-> r.net_annual_savings,
         annual_current_loss |-> r.annual_current_loss,
         annual_blockchain_cost |-> r.annual_blockchain_cost,
         payback_year |-> p.payback_year,
         total_savings_over_period |-> r.cumulative_savings[Len(r.cumulative_savings)],
         payback_period_text |-> PaybackText(p.payback_year)]

Widgets(fee, funds, loss, consulting, txns, years) ==
    [transaction_fee_percent |-> fee,
     annual_trapped_funds |-> funds,
     annual_loss_rate_percent |-> loss,
     consulting_fee |-> consulting,
     transactions_per_year |-> txns,
     selected_years |-> years]

\* The script's run after an interaction: the outputs of the new state are
\* those of the script on the new widget values.
Rerun ==
    \E r \in {Script(Widgets(transaction_fee_percent', annual_trapped_funds',
                            annual_loss_rate_percent', consulting_fee',
                            transactions_per_year', selected_years'))} :
        /\ cumulative_savings' = r.cumulative_savings
        /\ net_annual_savings' = r.net_annual_savings
        /\ annual_current_loss' = r.annual_current_loss
        /\ annual_blockchain_cost' = r.annual_blockchain_cost
        /\ payback_year' = r.payback_year
        /\ total_savings_over_period' = r.total_savings_over_period
        /\ payback_period_text' = r.payback_period_text

\* ---------------------------------------------------------------- actions

\* The first run: every widget at its default.
Init ==
    /\ selected_scenario = scenarios[1]
    /\ transaction_fee_percent = default_params[scenarios[1]].transaction_fee_percent
    /\ annual_trapped_funds = default_params[scenarios[1]].annual_trapped_funds
    /\ annual_loss_rate_percent = default_params[scenarios[1]].annual_loss_rate_percent
    /\ consulting_fee = ConsultingFeeDefault
    /\ transactions_per_year = default_params[scenarios[1]].transactions_per_year
    /\ selected_years = YearsDefault
    /\ LET r == Script(Widgets(transaction_fee_percent, annual_trapped_funds,
                               annual_loss_rate_percent, consulting_fee,
                               transactions_per_year, selected_years))
       IN  /\ cumulative_savings = r.cumulative_savings
           /\ net_annual_savings = r.net_annual_savings
           /\ annual_current_loss = r.annual_current_loss
           /\ annual_blockchain_cost = r.annual_blockchain_cost
           /\ payback_year = r.payback_year
           /\ total_savings_over_period = r.total_savings_over_period
           /\ payback_period_text = r.payback_period_text

\* The scenario selectbox.  The two sliders take their `value` from the
\* scenario, so a new scenario puts them at its presets; the other widgets'
\* defaults are the same in every scenario and they keep their values.
SelectScenario ==
    \E i \in 1..Len(scenarios) :
        /\ scenarios[i] # selected_scenario
        /\ selected_scenario' = scenarios[i]
        /\ transaction_fee_percent' = default_params[scenarios[i]].transaction_fee_percent
        /\ annual_loss_rate_percent' = default_params[scenarios[i]].annual_loss_rate_percent
        /\ UNCHANGED <<annual_trapped_funds, consulting_fee, transactions_per_year,
                       selected_years>>
        /\ Rerun

SetTransactionFee ==
    \E v \in FeeChoices :
        /\ v # transaction_fee_percent
        /\ transaction_fee_percent' = v
        /\ UNCHANGED <<selected_scenario, annual_trapped_funds, annual_loss_rate_percent,
                       consulting_fee, transactions_per_year, selected_years>>
        /\ Rerun

SetTrappedFunds ==
    \E c \in Countries : \E v \in FundChoices(c) :
        /\ v # annual_trapped_funds[c]
        /\ annual_trapped_funds' = [annual_trapped_funds EXCEPT ![c] = v]
        /\ UNCHANGED <<selected_scenario, transaction_fee_percent,
                       annual_loss_rate_percent, consulting_fee, transactions_per_year,
                       selected_years>>
        /\ Rerun

SetLossRate ==
    \E v \in LossChoices :
        /\ v # annual_loss_rate_percent
        /\ annual_loss_rate_percent' = v
        /\ UNCHANGED <<selected_scenario, transaction_fee_percent, annual_trapped_funds,
                       consulting_fee, transactions_per_year, selected_years>>
        /\ Rerun

SetConsultingFee ==
    \E v \in ConsultingChoices :
        /\ v # consulting_fee
        /\ consulting_fee' = v
        /\ UNCHANGED <<selected_scenario, transaction_fee_percent, annual_trapped_funds,
                       annual_loss_rate_percent, transactions_per_year, selected_years>>
        /\ Rerun

SetTransactionsPerYear ==
    \E c \in Countries : \E v \in TxnChoices :
        /\ v # transactions_per_year[c]
        /\ transactions_per_year' = [transactions_per_year EXCEPT ![c] = v]
        /\ UNCHANGED <<selected_scenario, transaction_fee_percent, annual_trapped_funds,
                       annual_loss_rate_percent, consulting_fee, selected_years>>
        /\ Rerun

SetYears ==
    \E v \in YearChoices :
        /\ v # selected_years
        /\ selected_years' = v
        /\ UNCHANGED <<selected_scenario, transaction_fee_percent, annual_trapped_funds,
                       annual_loss_rate_percent, consulting_fee, transactions_per_year>>
        /\ Rerun

Next ==
    \/ SelectScenario
    \/ SetTransactionFee
    \/ SetTrappedFunds
    \/ SetLossRate
    \/ SetConsultingFee
    \/ SetTransactionsPerYear
    \/ SetYears

Spec == Init /\ [][Next]_vars

\* ----------------------------------------------------------- properties

Years == 1..selected_years

TrappedTotal ==
    annual_trapped_funds["Bangladesh"] + annual_trapped_funds["Pakistan"]
        + annual_trapped_funds["Others"]

\* The payback loop's running total after year y of the current run.
Running(y) == PaybackLoop(net_annual_savings, consulting_fee, y).cumulative

\* The least element of a set of years, None when it is empty.
FirstYear(S) == IF S = {} THEN None ELSE CHOOSE y \in S : \A z \in S : y <= z

\* The widgets hold the Average Estimate presets, a consulting fee of 250,000
\* and a horizon of 10 years.
AverageEstimateInputs ==
    /\ transaction_fee_percent = 225
    /\ annual_loss_rate_percent = 1500
    /\ annual_trapped_funds["Bangladesh"] = Dollars(1000000)
    /\ annual_trapped_funds["Pakistan"] = Dollars(500000)
    /\ annual_trapped_funds["Others"] = Dollars(300000)
    /\ consulting_fee = Dollars(250000)
    /\ selected_years = 10

\* C1: for every year y of the horizon, cumulative_savings[y] is
\* y * net_annual_savings - consulting_fee: the fee is subtracted once, in
\* year 1, and every later element exceeds its predecessor by exactly
\* net_annual_savings.
C1_CumulativeClosedForm ==
    /\ DOMAIN cumulative_savings = Years
    /\ cumulative_savings[1] = net_annual_savings - consulting_fee
    /\ \A y \in Years :
           cumulative_savings[y] = y * net_annual_savings - consulting_fee
    /\ \A y \in Years \ {1} :
           cumulative_savings[y] = cumulative_savings[y - 1] + net_annual_savings

C1_Witness ==
    /\ selected_years >= 3
    /\ consulting_fee > 0
    /\ net_annual_savings > 0
    /\ cumulative_savings[1] < 0
    /\ cumulative_savings[selected_years] > 0

\* C2: the payback loop's running total adds net_annual_savings every year
\* and subtracts consulting_fee / 1,000,000 in year 1 only; payback_year is
\* the first year at which that total is >= 0, no later year overwrites it,
\* and it is None, shown as "Not within horizon", when the total is < 0 in
\* every year of the horizon.
C2_PaybackFirstYear ==
    /\ \A y \in Years :
           Running(y) = y * net_annual_savings - (consulting_fee \div 1000000)
    /\ payback_year = FirstYear({y \in Years : Running(y) >= 0})
    /\ \A y \in Years :
           LET after == PaybackLoop(net_annual_savings, consulting_fee, y).payback_year
           IN  IF payback_year # None /\ y >= payback_year
               THEN after = payback_year
               ELSE after = None
    /\ payback_period_text =
           IF \A y \in Years : Running(y) < 0
           THEN "Not within horizon"
           ELSE ToString(payback_year)

C2_Witness ==
    /\ payback_year >= 2
    /\ selected_years > payback_year
    /\ Running(1) < 0
    /\ payback_period_text = ToString(payback_year)

\* C3: the payback period is the first year at which the cumulative net
\* savings offset the consulting fee: payback_year is the least y of the
\* horizon with cumulative_savings[y] >= 0, and None exactly when there is
\* no such year.
C3_PaybackIsBreakEven ==
    payback_year = FirstYear({y \in Years : cumulative_savings[y] >= 0})

\* C4, as claimed: cumulative_savings is non-decreasing after year 1.
C4_NonDecreasing ==
    \A y \in Years \ {1} : cumulative_savings[y] >= cumulative_savings[y - 1]

\* C4, amended: after year 1 every step of cumulative_savings is exactly
\* net_annual_savings, so the sequence is non-decreasing exactly when
\* net_annual_savings >= 0 and strictly decreasing when it is negative.
C4_StepIsNetSavings ==
    \A y \in Years \ {1} :
        /\ cumulative_savings[y] - cumulative_savings[y - 1] = net_annual_savings
        /\ (cumulative_savings[y] >= cumulative_savings[y - 1])
               <=> (net_annual_savings >= 0)
        /\ (cumulative_savings[y] < cumulative_savings[y - 1])
               <=> (transaction_fee_percent > annual_loss_rate_percent
                        /\ TrappedTotal > 0)

C4_Witness ==
    /\ selected_years >= 2
    /\ net_annual_savings < 0
    /\ cumulative_savings[selected_years] < cumulative_savings[1]

\* The aggregates of calculate_savings: loss and cost are the two percentages
\* of the total of the trapped funds, and the net savings their difference.
AggregatesDerived ==
    /\ annual_current_loss = PercentOf(TrappedTotal, annual_loss_rate_percent)
    /\ annual_blockchain_cost = PercentOf(TrappedTotal, transaction_fee_percent)
    /\ net_annual_savings = annual_current_loss - annual_blockchain_cost
    /\ net_annual_savings =
           PercentOf(TrappedTotal, annual_loss_rate_percent - transaction_fee_percent)

\* The figures of the Average Estimate scenario that C5 and its amendment
\* agree on.
AverageEstimateFigures ==
    /\ TrappedTotal = Dollars(1800000)
    /\ annual_current_loss = Dollars(270000)
    /\ annual_blockchain_cost = Dollars(40500)
    /\ net_annual_savings = Dollars(229500)
    /\ cumulative_savings[1] = Dollars(-20500)
    /\ cumulative_savings[2] = Dollars(209000)

\* C5, as claimed: the aggregates are derived as stated and the Average
\* Estimate scenario ends at cumulative_savings[10] = 2,045,500.
C5_ScenarioAsClaimed ==
    /\ AggregatesDerived
    /\ AverageEstimateInputs =>
           /\ AverageEstimateFigures
           /\ cumulative_savings[10] = Dollars(2045500)

\* C5, amended: the aggregates are derived as stated; the Average Estimate
\* scenario gives total 1,800,000, loss 270,000, cost 40,500, net 229,500,
\* cumulative_savings[1] = -20,500, [2] = 209,000 and [10] = 2,045,000.
C5_ScenarioFigures ==
    /\ AggregatesDerived
    /\ AverageEstimateInputs =>
           /\ AverageEstimateFigures
           /\ cumulative_savings[10] = Dollars(2045000)
           /\ total_savings_over_period = Dollars(2045000)

C5_Witness ==
    /\ selected_scenario = "Average Estimate"
    /\ AverageEstimateInputs
    /\ Len(cumulative_savings) = 10

\* C6: cumulative_savings has exactly selected_years elements, one appended
\* by each iteration of the loop, so with a horizon of at least 1 its last
\* element, the total savings over the period, exists.
C6_LengthIsHorizon ==
    /\ selected_years >= 1
    /\ Len(cumulative_savings) = selected_years
    /\ \A y \in 0..selected_years :
           Len(SavingsLoop(net_annual_savings, consulting_fee, y).cumulative_savings) = y
    /\ Len(cumulative_savings) \in DOMAIN cumulative_savings
    /\ total_savings_over_period = cumulative_savings[Len(cumulative_savings)]

C6_Witness ==
    /\ selected_years = YearsMax
    /\ Len(cumulative_savings) = YearsMax
    /\ total_savings_over_period = cumulative_savings[YearsMax]
    /\ total_savings_over_period < 0

\* C7: when net_annual_savings <= 0 and consulting_fee > 0, cumulative_savings
\* is non-increasing, the payback loop's running total is negative in every
\* year and payback_year is None, shown as "Not within horizon".
C7_NoPaybackWithoutSavings ==
    (net_annual_savings <= 0 /\ consulting_fee > 0) =>
        /\ \A y \in Years \ {1} : cumulative_savings[y] <= cumulative_savings[y - 1]
        /\ \A y \in Years : Running(y) < 0
        /\ payback_year = None
        /\ payback_period_text = "Not within horizon"

C7_Witness ==
    /\ net_annual_savings = 0
    /\ TrappedTotal > 0
    /\ consulting_fee > 0
    /\ selected_years >= 2
    /\ payback_year = None

\* C8: when every entity's trapped funds are zero, net_annual_savings is 0
\* and every element of cumulative_savings is -consulting_fee, whatever the
\* loss rate, the fee rate and the horizon.
C8_ZeroTrappedFunds ==
    (\A c \in Countries : annual_trapped_funds[c] = 0) =>
        /\ net_annual_savings = 0
        /\ \A y \in Years : cumulative_savings[y] = -consulting_fee

C8_Witness ==
    /\ \A c \in Countries : annual_trapped_funds[c] = 0
    /\ annual_loss_rate_percent # transaction_fee_percent
    /\ transaction_fee_percent > 0
    /\ consulting_fee > 0
    /\ selected_years >= 2
    /\ cumulative_savings[selected_years] = -consulting_fee

\* C9: transactions_per_year is display-only: a run of the script whose
\* inputs differ from the previous run's in transactions_per_year alone
\* computes the same loss, cost, net savings, cumulative savings and payback
\* year.
C9_TransactionsDisplayOnly ==
    [][(UNCHANGED <<transaction_fee_percent, annual_trapped_funds,
                    annual_loss_rate_percent, consulting_fee, selected_years>>)
           => UNCHANGED <<annual_current_loss, annual_blockchain_cost,
                          net_annual_savings, cumulative_savings, payback_year,
                          total_savings_over_period, payback_period_text>>]_vars

C9_Witness ==
    /\ transactions_per_year["Bangladesh"] = TxnMin
    /\ transactions_per_year["Pakistan"] = TxnDefault
    /\ transactions_per_year["Others"] = TxnMin
    /\ annual_blockchain_cost > 0
    /\ payback_year # None

\* C10: in every year the payback loop's running total is at least
\* cumulative_savings[y], the two differing by consulting_fee -
\* consulting_fee / 1,000,000; so when some cumulative_savings[y] >= 0,
\* payback_year is set and is no later than the first such year.
C10_PaybackNotLater ==
    /\ \A y \in Years :
           /\ Running(y) >= cumulative_savings[y]
           /\ Running(y) - cumulative_savings[y]
                  = consulting_fee - (consulting_fee \div 1000000)
    /\ \A y \in Years :
           cumulative_savings[y] >= 0 => (payback_year # None /\ payback_year <= y)

\* The converse fails: a payback year is reported in which cumulative_savings
\* is still negative.
C10_Witness ==
    /\ payback_year # None
    /\ cumulative_savings[payback_year] < 0
    /\ \E y \in Years : cumulative_savings[y] >= 0 /\ y > payback_year

=============================================================================
